---- MODULE Spec2Model ----
(***************************************************************************)
(* Model of md2audio's voice cache (internal/cache), its caching decorator *)
(* (internal/cache/cached_provider.go) and the ElevenLabs retry executor   *)
(* (internal/tts/elevenlabs/client.go).                                    *)
(***************************************************************************)
EXTENDS Integers, Sequences, FiniteSets, TLC

(***************************************************************************)
(* Bounds of the model.                                                    *)
(***************************************************************************)
\* longest voice list handed to Set
MaxVoices == 2
\* last value of the clock (seconds)
MaxTime == 2
\* cacheDuration of the cache under test, in seconds
CacheTTL == 1

(***************************************************************************)
(* Data: tts.Voice and the rows of the voices table.                       *)
(***************************************************************************)
Providers == {"p1", "p2"}

Voice(id, name, desc) ==
    [ID |-> id, Name |-> name, Description |-> desc, Language |-> "en", Gender |-> "f"]

Voices == {Voice("a", "Anna", ""), Voice("b", "Bob", "d")}

SeqsUpTo(S, n) == UNION {[1..k -> S] : k \in 0..n}

VoiceLists == SeqsUpTo(Voices, MaxVoices)

Range(s) == {s[k] : k \in DOMAIN s}

Row(p, v, t) == [provider |-> p, voice |-> v, cached_at |-> t]

\* the rows of one provider (WHERE provider = ?)
RowsOf(table, p) == {r \in table : r.provider = p}

\* WHERE provider = ? AND cached_at > ?
\* a query without the cached_at condition
FreshRowsAnyAge(table, p, cutoff) == RowsOf(table, p)

FreshRows(table, p, cutoff) == {r \in RowsOf(table, p) : r.cached_at > cutoff}

VoicesIn(rs) == {r.voice : r \in rs}

\* a Set that inserts without deleting the provider's old rows
TxDeleteNothing(table, p) == table

\* DELETE FROM voices WHERE provider = ?
TxDelete(table, p) == table \ RowsOf(table, p)

\* an INSERT that leaves the description column empty
TxInsertNoDescription(table, p, v, t) ==
    table \cup {Row(p, [v EXCEPT !.Description = ""], t)}

\* INSERT INTO voices (...) VALUES (provider, voice..., now)
TxInsert(table, p, v, t) == table \cup {Row(p, v, t)}

\* PRIMARY KEY (provider, voice_id)
KeyTaken(table, p, v) == \E r \in table : r.provider = p /\ r.voice.ID = v.ID

\* ORDER BY name: every arrangement of the rows' voices with ascending names
\* (the order of rows with equal names is not fixed by the query)
NameRank(n) == CASE n = "Anna" -> 1 [] n = "Bob" -> 2 [] OTHER -> 3

NameOrdered(s) == \A i, j \in DOMAIN s : i < j => NameRank(s[i].Name) <= NameRank(s[j].Name)

Orderings(vs) ==
    {s \in [1..Cardinality(vs) -> vs] : Range(s) = vs /\ NameOrdered(s)}

(***************************************************************************)
(* State.                                                                  *)
(***************************************************************************)
\* the goroutines that call the cache; each belongs to a CachedProvider and
\* so always passes that provider's Name()
Writers == {"w1", "w2"}
Readers == {"r1"}
ProviderOf(c) == "p1"
NoLock == "none"

\* rows: the committed content of the voices table
\* now:  time.Now().Unix()
\* lock: the connection holding the database's write lock, or NoLock
\* tx:   per writer, the Set call it is in
\* rd:   per reader, the Get call it is in
\* meta: per provider, the successful Sets since the last Clear
\* ret:  the call that returned in the last step, if one did
\* cp:   the CachedProvider call under way
\* rq:   the retryableHTTPRequest call under way
\* files: per path, the content of the file written there, if any
\* fit:  the duration fitter call under way: its arguments and what came of it
\* run:  the ProcessDirectory call under way: its files and how far it is
\* ops:  the Sets and Clears of concurrent goroutines that have succeeded
VARIABLES rows, now, lock, tx, rd, meta, ret, cp, rq, files, fit, run, ops, cmd

vars == <<rows, now, lock, tx, rd, meta, ret, cp, rq, files, fit, run, ops, cmd>>

\* what the cache's own operations leave alone
beyondCache == <<cp, rq, files, fit, run, ops, cmd>>

\* what the CachedProvider's calls leave alone, besides the cache's state
beyondCp == <<rq, files, fit, run, ops, cmd>>

\* what the retry executor leaves alone
beyondRetry == <<rows, now, lock, tx, rd, meta, ret, cp, files, fit, run, ops, cmd>>

\* what the calls of the ElevenLabs client leave alone
beyondApi == <<rows, now, lock, tx, rd, meta, cp, files, fit, run, ops, cmd>>

\* what ExportToJSON leaves alone when it writes its file
beyondExport == <<rows, now, lock, tx, rd, meta, cp, rq, fit, run, ops, cmd>>

\* what a provider's Generate leaves alone
beyondGen == <<rows, now, lock, tx, rd, meta, cp, rq, files, fit, run, ops, cmd>>

\* what the duration fitters leave alone
beyondFit == <<rows, now, lock, tx, rd, meta, ret, cp, rq, files, run, ops, cmd>>

\* what ProcessDirectory leaves alone
beyondRun == <<rows, now, lock, tx, rd, meta, cp, rq, files, fit, ops, cmd>>

\* what a Set or Clear among concurrent ones leaves alone, besides the cache's state
beyondSets == <<cp, rq, files, fit, run, cmd>>

\* what the voice-listing command leaves alone
beyondCmd == <<rows, now, lock, tx, rd, meta, cp, rq, files, fit, run, ops>>

\* the paths a caller exports to; no file is there at first
Paths == {"voices.json"}
NoFile == [exists |-> FALSE, data |-> <<>>]

\* no duration fitter call under way
NoFit == [pc |-> "idle"]

\* no ProcessDirectory call under way
NoRun == [pc |-> "idle"]

IdleTx == [pc |-> "idle", p |-> "p1", V |-> <<>>, i |-> 0, work |-> {}, stamp |-> 0, pre |-> {}]

IdleRd ==
    [pc |-> "idle", p |-> "p1", cursor |-> <<>>, got |-> <<>>,
     whole |-> {}, twice |-> FALSE, during |-> FALSE]

NoMeta == [nsets |-> 0, last |-> <<>>, stamp |-> 0, dropped |-> FALSE]

NoRet == [call |-> "none"]

IdleCp ==
    [pc |-> "idle", call |-> "none", got |-> <<>>, voices |-> <<>>, backend |-> 0,
     cleared |-> FALSE, held |-> {}, failed |-> FALSE, lost |-> {}]

\* the voice-listing command is not running
IdleCmd == [pc |-> "idle", refreshCache |-> FALSE, infoErr |-> FALSE, count |-> 0]

IdleRq ==
    [pc |-> "idle", body |-> <<>>, unread |-> 0, retryCount |-> 0, outcomes |-> <<>>,
     sent |-> <<>>, waits |-> 0, lastErr |-> <<>>, result |-> <<"none", 0>>,
     cancelled |-> FALSE, cancelledAt |-> 0]

Init ==
    /\ rows = {}
    /\ now = 0
    /\ lock = NoLock
    /\ tx = [w \in Writers |-> IdleTx]
    /\ rd = [r \in Readers |-> IdleRd]
    /\ meta = [p \in Providers |-> NoMeta]
    /\ ret = NoRet
    /\ cp = IdleCp
    /\ rq = IdleRq
    /\ files = [path \in Paths |-> NoFile]
    /\ fit = NoFit
    /\ run = NoRun
    /\ ops = 0
    /\ cmd = IdleCmd

Min2(a, b) == IF a < b THEN a ELSE b

\* the record of one more successful Set of p
MetaAfterSet(p, V, t, pre) ==
    [meta EXCEPT ![p] = [nsets |-> Min2(@.nsets + 1, 2), last |-> V, stamp |-> t,
                         dropped |-> (VoicesIn(pre) \ Range(V)) # {}]]

\* a Get of p that is under way when a Set of p commits has run during that Set
NoteCommit(p) ==
    [r \in Readers |->
        IF rd[r].pc = "scan" /\ rd[r].p = p THEN [rd[r] EXCEPT !.during = TRUE] ELSE rd[r]]

(***************************************************************************)
(* VoiceCache.Set: BeginTx, DELETE, prepare, one INSERT per voice, Commit; *)
(* the deferred Rollback undoes the transaction on every error return.     *)
(***************************************************************************)
\* an error return of Set that leaves the transaction's statements in effect
RollbackKeepsWork(w, at) ==
    /\ tx' = [tx EXCEPT ![w] = IdleTx]
    /\ lock' = IF lock = w THEN NoLock ELSE lock
    /\ rows' = tx[w].work
    /\ ret' = [call |-> "Set", by |-> w, p |-> tx[w].p, err |-> TRUE, at |-> at, n |-> tx[w].i - 1,
               pre |-> tx[w].pre, seen |-> RowsOf(tx[w].work, tx[w].p)]
    /\ UNCHANGED <<now, rd, meta>>
    /\ UNCHANGED beyondCache

\* an error return of Set and the tx.Rollback() of its defer: the
\* transaction's work is dropped, the write lock (if held) is released, the
\* committed rows are untouched
Rollback(w, at) ==
    /\ tx' = [tx EXCEPT ![w] = IdleTx]
    /\ lock' = IF lock = w THEN NoLock ELSE lock
    /\ ret' = [call |-> "Set", by |-> w, p |-> tx[w].p, err |-> TRUE, at |-> at, n |-> tx[w].i - 1,
               pre |-> tx[w].pre, seen |-> RowsOf(rows, tx[w].p)]
    /\ UNCHANGED <<rows, now, rd, meta>>
    /\ UNCHANGED beyondCache

\* c.db.BeginTx(ctx, nil) and DELETE FROM voices WHERE provider = ? inside the
\* transaction: the DELETE takes the write lock and removes the provider's rows
\* from the transaction's view; then tx.PrepareContext and
\* now := time.Now().Unix()
SetDelete(w) ==
    /\ tx[w].pc = "idle"
    /\ lock = NoLock
    /\ lock' = w
    /\ \E V \in VoiceLists :
         LET p == ProviderOf(w) IN
          tx' = [tx EXCEPT ![w] = [pc |-> "insert", p |-> p, V |-> V, i |-> 1,
                                   work |-> TxDelete(rows, p), stamp |-> now,
                                   pre |-> RowsOf(rows, p)]]
    /\ ret' = NoRet
    /\ UNCHANGED <<rows, now, rd, meta>>
    /\ UNCHANGED beyondCache

\* BeginTx fails, or the DELETE fails (database is locked by another writer, or
\* any other error), or the prepare fails
SetDeleteFail(w) ==
    /\ tx[w].pc = "idle"
    /\ ret' = [call |-> "Set", by |-> w, p |-> ProviderOf(w), err |-> TRUE, at |-> "delete", n |-> 0,
               pre |-> RowsOf(rows, ProviderOf(w)), seen |-> RowsOf(rows, ProviderOf(w))]
    /\ UNCHANGED <<rows, now, lock, tx, rd, meta>>
    /\ UNCHANGED beyondCache

\* an INSERT that is not part of a transaction: the row is committed at once
SetInsertAutocommit(w) ==
    /\ tx[w].pc = "insert"
    /\ tx[w].i <= Len(tx[w].V)
    /\ ~KeyTaken(tx[w].work, tx[w].p, tx[w].V[tx[w].i])
    /\ tx' = [tx EXCEPT ![w].work = TxInsert(@, tx[w].p, tx[w].V[tx[w].i], tx[w].stamp),
                        ![w].i = @ + 1]
    /\ rows' = TxInsert(rows, tx[w].p, tx[w].V[tx[w].i], tx[w].stamp)
    /\ ret' = NoRet
    /\ UNCHANGED <<now, lock, rd, meta>>
    /\ UNCHANGED beyondCache

\* stmt.ExecContext of the loop body for voices[i]
SetInsert(w) ==
    /\ tx[w].pc = "insert"
    /\ tx[w].i <= Len(tx[w].V)
    /\ ~KeyTaken(tx[w].work, tx[w].p, tx[w].V[tx[w].i])
    /\ tx' = [tx EXCEPT ![w].work = TxInsert(@, tx[w].p, tx[w].V[tx[w].i], tx[w].stamp),
                        ![w].i = @ + 1]
    /\ ret' = NoRet
    /\ UNCHANGED <<rows, now, lock, rd, meta>>
    /\ UNCHANGED beyondCache

\* the INSERT fails: always on a duplicate key, possibly on any other error
SetInsertFail(w) ==
    /\ tx[w].pc = "insert"
    /\ tx[w].i <= Len(tx[w].V)
    /\ Rollback(w, "insert")

\* tx.Commit(): the transaction's view becomes the committed table
SetCommit(w) ==
    /\ tx[w].pc = "insert"
    /\ tx[w].i > Len(tx[w].V)
    /\ rows' = tx[w].work
    /\ lock' = NoLock
    /\ tx' = [tx EXCEPT ![w] = IdleTx]
    /\ meta' = MetaAfterSet(tx[w].p, tx[w].V, tx[w].stamp, tx[w].pre)
    /\ rd' = NoteCommit(tx[w].p)
    /\ ret' = [call |-> "Set", by |-> w, p |-> tx[w].p, err |-> FALSE, at |-> "commit", n |-> tx[w].i - 1,
               pre |-> tx[w].pre, seen |-> RowsOf(tx[w].work, tx[w].p)]
    /\ UNCHANGED now
    /\ UNCHANGED beyondCache

SetCommitFail(w) ==
    /\ tx[w].pc = "insert"
    /\ tx[w].i > Len(tx[w].V)
    /\ Rollback(w, "commit")

(***************************************************************************)
(* VoiceCache.Clear: one DELETE outside any transaction.                   *)
(***************************************************************************)
Clear(w) ==
    /\ tx[w].pc = "idle"
    /\ lock = NoLock
    /\ LET p == ProviderOf(w) IN
          /\ rows' = TxDelete(rows, p)
          /\ meta' = [meta EXCEPT ![p] = NoMeta]
          /\ ret' = [call |-> "Clear", by |-> w, p |-> p, err |-> FALSE]
    /\ UNCHANGED <<now, lock, tx, rd>>
    /\ UNCHANGED beyondCache

ClearFail(w) ==
    /\ tx[w].pc = "idle"
    /\ ret' = [call |-> "Clear", by |-> w, p |-> ProviderOf(w), err |-> TRUE]
    /\ UNCHANGED <<rows, now, lock, tx, rd, meta>>
    /\ UNCHANGED beyondCache

(***************************************************************************)
(* VoiceCache.Get: one SELECT, read row by row from the statement's        *)
(* snapshot of the committed table.                                        *)
(***************************************************************************)
GetQuery(r) ==
    /\ rd[r].pc = "idle"
    /\ LET p      == ProviderOf(r)
           cutoff == now - CacheTTL
           fresh  == FreshRows(rows, p, cutoff)
       IN \E cur \in Orderings(VoicesIn(fresh)) :
             rd' = [rd EXCEPT ![r] =
                     [pc |-> "scan", p |-> p, cursor |-> cur, got |-> <<>>,
                      whole |-> IF meta[p].stamp > cutoff THEN Range(meta[p].last) ELSE {},
                      twice |-> (meta[p].nsets = 2 /\ meta[p].stamp > cutoff),
                      during |-> \E w \in Writers : tx[w].pc = "insert" /\ tx[w].p = p]]
    /\ ret' = NoRet
    /\ UNCHANGED <<rows, now, lock, tx, meta>>
    /\ UNCHANGED beyondCache

\* c.db.QueryContext fails
GetQueryFail(r) ==
    /\ rd[r].pc = "idle"
    /\ ret' = [call |-> "Get", by |-> r, p |-> ProviderOf(r), err |-> TRUE, voices |-> <<>>,
               whole |-> {}, twice |-> FALSE, during |-> FALSE]
    /\ UNCHANGED <<rows, now, lock, tx, rd, meta>>
    /\ UNCHANGED beyondCache

\* rows.Next() and rows.Scan: one more voice appended
GetScan(r) ==
    /\ rd[r].pc = "scan"
    /\ rd[r].cursor # <<>>
    /\ rd' = [rd EXCEPT ![r].got = Append(@, Head(rd[r].cursor)),
                        ![r].cursor = Tail(@)]
    /\ ret' = NoRet
    /\ UNCHANGED <<rows, now, lock, tx, meta>>
    /\ UNCHANGED beyondCache

\* rows.Scan or rows.Err() reports an error: nil voices are returned
GetScanFail(r) ==
    /\ rd[r].pc = "scan"
    /\ rd' = [rd EXCEPT ![r] = IdleRd]
    /\ ret' = [call |-> "Get", by |-> r, p |-> rd[r].p, err |-> TRUE, voices |-> <<>>,
               whole |-> rd[r].whole, twice |-> rd[r].twice, during |-> rd[r].during]
    /\ UNCHANGED <<rows, now, lock, tx, meta>>
    /\ UNCHANGED beyondCache

\* the loop is over: the voices read (nil when there are none) are returned
GetReturn(r) ==
    /\ rd[r].pc = "scan"
    /\ rd[r].cursor = <<>>
    /\ rd' = [rd EXCEPT ![r] = IdleRd]
    /\ ret' = [call |-> "Get", by |-> r, p |-> rd[r].p, err |-> FALSE, voices |-> rd[r].got,
               whole |-> rd[r].whole, twice |-> rd[r].twice, during |-> rd[r].during]
    /\ UNCHANGED <<rows, now, lock, tx, meta>>
    /\ UNCHANGED beyondCache

\* a second passes
Tick ==
    /\ now < MaxTime
    /\ now' = now + 1
    /\ ret' = NoRet
    /\ UNCHANGED <<rows, lock, tx, rd, meta>>
    /\ UNCHANGED beyondCache

CacheNext ==
    \/ \E w \in Writers : SetDelete(w)
    \/ \E w \in Writers : SetDeleteFail(w)
    \/ \E w \in Writers : SetInsert(w)
    \/ \E w \in Writers : SetInsertFail(w)
    \/ \E w \in Writers : SetCommit(w)
    \/ \E w \in Writers : SetCommitFail(w)
    \/ \E w \in Writers : Clear(w)
    \/ \E w \in Writers : ClearFail(w)
    \/ \E r \in Readers : GetQuery(r)
    \/ \E r \in Readers : GetQueryFail(r)
    \/ \E r \in Readers : GetScan(r)
    \/ \E r \in Readers : GetScanFail(r)
    \/ \E r \in Readers : GetReturn(r)
    \/ Tick

SpecCache == Init /\ [][CacheNext]_vars

(***************************************************************************)
(* The cache's operations as single steps of a caller: what Get returns    *)
(* and what a whole Set transaction does to the table.                     *)
(***************************************************************************)
\* the voices a successful Get of p returns at time t
GetResults(table, p, t) == Orderings(VoicesIn(FreshRows(table, p, t - CacheTTL)))

\* the INSERT loop of Set from voices[k] on: the table of the transaction when
\* the loop is over, or the failure of an INSERT on a taken key
RECURSIVE RunInserts(_, _, _, _, _)
RunInserts(work, p, V, k, t) ==
    IF k > Len(V) THEN [ok |-> TRUE, table |-> work]
    ELSE IF KeyTaken(work, p, V[k]) THEN [ok |-> FALSE, table |-> work]
    ELSE RunInserts(TxInsert(work, p, V[k], t), p, V, k + 1, t)

\* DELETE and INSERT loop of one Set transaction
SetTx(table, p, V, t) == RunInserts(TxDelete(table, p), p, V, 1, t)

(***************************************************************************)
(* The cache used by one caller, one whole call after the other, for any   *)
(* provider: Set, Get, Clear, GetCacheInfo and ExportToJSON.               *)
(***************************************************************************)
\* Set succeeds: the rows of p are replaced by the rows of V
Set(p, V) ==
    /\ SetTx(rows, p, V, now).ok
    /\ rows' = SetTx(rows, p, V, now).table
    /\ meta' = MetaAfterSet(p, V, now, RowsOf(rows, p))
    /\ ret' = [call |-> "Set", p |-> p, err |-> FALSE, V |-> V, at |-> now]
    /\ UNCHANGED <<now, lock, tx, rd>>
    /\ UNCHANGED beyondCache

\* Set fails (a taken key, or any other error of a statement or of the
\* commit): the deferred Rollback leaves the table as it was
SetFail(p) ==
    /\ ret' = [call |-> "Set", p |-> p, err |-> TRUE, at |-> now]
    /\ UNCHANGED <<rows, now, lock, tx, rd, meta>>
    /\ UNCHANGED beyondCache

\* Get succeeds
Get(p) ==
    /\ \E got \in GetResults(rows, p, now) :
          ret' = [call |-> "Get", by |-> "caller", p |-> p, err |-> FALSE, voices |-> got,
                  at |-> now, stored |-> RowsOf(rows, p)]
    /\ UNCHANGED <<rows, now, lock, tx, rd, meta>>
    /\ UNCHANGED beyondCache

\* Get fails at the query, at a Scan or at rows.Err()
GetFail(p) ==
    /\ ret' = [call |-> "Get", by |-> "caller", p |-> p, err |-> TRUE, voices |-> <<>>,
               at |-> now, stored |-> RowsOf(rows, p)]
    /\ UNCHANGED <<rows, now, lock, tx, rd, meta>>
    /\ UNCHANGED beyondCache

\* Clear succeeds
ClearProvider(p) ==
    /\ rows' = TxDelete(rows, p)
    /\ meta' = [meta EXCEPT ![p] = NoMeta]
    /\ ret' = [call |-> "Clear", p |-> p, err |-> FALSE, at |-> now]
    /\ UNCHANGED <<now, lock, tx, rd>>
    /\ UNCHANGED beyondCache

\* the zero time.Time of an entry that was never set: before every cached_at
ZeroTime == 0 - 1

Least(S) == CHOOSE x \in S : \A y \in S : x <= y
Greatest(S) == CHOOSE x \in S : \A y \in S : x >= y

\* SELECT COUNT(*), MIN(cached_at), MAX(cached_at) ... WHERE provider = ?
CacheInfoOf(table, p) ==
    LET stamps == {r.cached_at : r \in RowsOf(table, p)}
    IN [Provider |-> p,
        Count |-> Cardinality(RowsOf(table, p)),
        OldestEntry |-> IF stamps = {} THEN ZeroTime ELSE Least(stamps),
        NewestEntry |-> IF stamps = {} THEN ZeroTime ELSE Greatest(stamps)]

\* GetCacheInfo succeeds
GetCacheInfo(p) ==
    /\ ret' = [call |-> "GetCacheInfo", p |-> p, err |-> FALSE, info |-> CacheInfoOf(rows, p),
               at |-> now, stored |-> RowsOf(rows, p)]
    /\ UNCHANGED <<rows, now, lock, tx, rd, meta>>
    /\ UNCHANGED beyondCache

\* time.Since(t), in seconds
Since(t) == now - t

\* an IsExpired that counts an entry of exactly the duration's age as expired
IsExpiredAtDuration(i, duration) ==
    IF i.Count = 0 THEN TRUE ELSE Since(i.NewestEntry) >= duration

\* CacheInfo.IsExpired
IsExpired(i, duration) ==
    IF i.Count = 0 THEN TRUE ELSE Since(i.NewestEntry) > duration

\* info.IsExpired(duration) on the CacheInfo that GetCacheInfo has just
\* returned for p
InfoIsExpired(p) ==
    /\ ret.call = "GetCacheInfo" /\ ret.p = p
    /\ \E duration \in 0..MaxTime :
          ret' = [call |-> "IsExpired", p |-> p, err |-> FALSE, info |-> ret.info, at |-> now,
                  ttl |-> duration, expired |-> IsExpired(ret.info, duration)]
    /\ UNCHANGED <<rows, now, lock, tx, rd, meta>>
    /\ UNCHANGED beyondCache

\* json.MarshalIndent(voices, "", " "): an array with one object per voice,
\* in the order of the list
MarshalIndent(voices) ==
    [k \in DOMAIN voices |->
        <<"ID", voices[k].ID, "Name", voices[k].Name, "Description", voices[k].Description,
          "Language", voices[k].Language, "Gender", voices[k].Gender>>]

\* os.WriteFile(outputPath, data, 0644) succeeds: the file holds data
WriteFile(data) == [exists |-> TRUE, data |-> data]

\* what ExportToJSON returns, and what it found: the rows stored for p and
\* the files there were when it was called
ExportRet(p, path, err, cause, voices) ==
    [call |-> "ExportToJSON", p |-> p, path |-> path, err |-> err, cause |-> cause,
     voices |-> voices, at |-> now, stored |-> RowsOf(rows, p), before |-> files]

\* an ExportToJSON that writes an empty array when Get returned no voices
ExportEmptyList(p, path) ==
    /\ \E voices \in GetResults(rows, p, now) :
          /\ files' = [files EXCEPT ![path] = WriteFile(MarshalIndent(voices))]
          /\ ret' = ExportRet(p, path, FALSE, "none", voices)
    /\ UNCHANGED beyondExport

\* ExportToJSON when its Get succeeds: "no cached voices found" when Get
\* returned none, else the voices are marshalled and written to the file
ExportToJSON(p, path) ==
    /\ \E voices \in GetResults(rows, p, now) :
          IF Len(voices) = 0
          THEN /\ ret' = ExportRet(p, path, TRUE, "no cached voices", voices)
               /\ UNCHANGED files
          ELSE /\ files' = [files EXCEPT ![path] = WriteFile(MarshalIndent(voices))]
               /\ ret' = ExportRet(p, path, FALSE, "none", voices)
    /\ UNCHANGED beyondExport

\* ExportToJSON when its Get fails: "failed to get cached voices"
ExportGetFail(p, path) ==
    /\ ret' = ExportRet(p, path, TRUE, "get", <<>>)
    /\ UNCHANGED <<rows, now, lock, tx, rd, meta>>
    /\ UNCHANGED beyondCache

\* ExportToJSON when os.WriteFile fails: the file is as it was (it could not
\* be opened) or holds the part of the array that was written
ExportWriteFail(p, path) ==
    /\ \E voices \in GetResults(rows, p, now) :
          /\ Len(voices) > 0
          /\ \/ UNCHANGED files
             \/ \E n \in 0..(Len(voices) - 1) :
                   files' = [files EXCEPT ![path] = WriteFile(SubSeq(MarshalIndent(voices), 1, n))]
          /\ ret' = ExportRet(p, path, TRUE, "write", voices)
    /\ UNCHANGED beyondExport

OneNext ==
    \/ \E p \in Providers, V \in VoiceLists : Set(p, V)
    \/ \E p \in Providers : SetFail(p)
    \/ \E p \in Providers : Get(p)
    \/ \E p \in Providers : GetFail(p)
    \/ \E p \in Providers : ClearProvider(p)
    \/ \E p \in Providers : GetCacheInfo(p)
    \/ \E p \in Providers, path \in Paths : ExportToJSON(p, path)
    \/ \E p \in Providers, path \in Paths : ExportGetFail(p, path)
    \/ \E p \in Providers, path \in Paths : ExportWriteFail(p, path)
    \/ Tick

SpecOne == Init /\ [][OneNext]_vars

(***************************************************************************)
(* The CacheInfo of a cache that is set and cleared while time passes, and *)
(* IsExpired on it.                                                        *)
(***************************************************************************)
InfoNext ==
    \/ \E p \in Providers, V \in VoiceLists : Set(p, V)
    \/ \E p \in Providers : ClearProvider(p)
    \/ \E p \in Providers : GetCacheInfo(p)
    \/ \E p \in Providers : InfoIsExpired(p)
    \/ Tick

SpecInfo == Init /\ [][InfoNext]_vars

(***************************************************************************)
(* Sets and Clears of any provider by concurrent goroutines, each Set with *)
(* its BeginTx as a step of its own: a transaction that has begun holds no *)
(* lock until its DELETE.                                                  *)
(***************************************************************************)
\* the Sets and Clears that succeed in one run of the goroutines
MaxOps == 2

\* the Sets that are under way
UnderWay == Cardinality({w \in Writers : tx[w].pc # "idle"})

\* c.db.BeginTx(ctx, nil) of Set(p, V); met collects the providers of the
\* Sets that commit while this one is under way
SetBegin(w) ==
    /\ tx[w].pc = "idle"
    /\ ops + UnderWay < MaxOps
    /\ \E p \in Providers : \E V \in VoiceLists :
          tx' = [tx EXCEPT ![w] = [pc |-> "begun", p |-> p, V |-> V, i |-> 1, work |-> {},
                                   stamp |-> 0, pre |-> {}, met |-> {}]]
    /\ ret' = NoRet
    /\ UNCHANGED <<rows, now, lock, rd, meta>>
    /\ UNCHANGED beyondCache

\* a Set whose DELETE removes no row
SetDeleteBegunKeepsRows(w) ==
    /\ tx[w].pc = "begun"
    /\ lock = NoLock
    /\ lock' = w
    /\ tx' = [tx EXCEPT ![w].pc = "insert", ![w].work = rows,
                        ![w].stamp = now, ![w].pre = RowsOf(rows, tx[w].p)]
    /\ ret' = NoRet
    /\ UNCHANGED <<rows, now, rd, meta>>
    /\ UNCHANGED beyondCache

\* DELETE FROM voices WHERE provider = ? of a transaction that has begun: it
\* waits for the write lock, takes it and removes the provider's rows from
\* the transaction's view; then tx.PrepareContext and now := time.Now().Unix()
SetDeleteBegun(w) ==
    /\ tx[w].pc = "begun"
    /\ lock = NoLock
    /\ lock' = w
    /\ tx' = [tx EXCEPT ![w].pc = "insert", ![w].work = TxDelete(rows, tx[w].p),
                        ![w].stamp = now, ![w].pre = RowsOf(rows, tx[w].p)]
    /\ ret' = NoRet
    /\ UNCHANGED <<rows, now, rd, meta>>
    /\ UNCHANGED beyondCache

\* the DELETE or the prepare fails (the database stays locked by another
\* writer, or any other error)
SetDeleteBegunFail(w) ==
    /\ tx[w].pc = "begun"
    /\ Rollback(w, "delete")

\* a commit that adds the transaction's rows to the committed ones
SetCommitAdds(w) ==
    /\ tx[w].pc = "insert"
    /\ tx[w].i > Len(tx[w].V)
    /\ rows' = rows \cup tx[w].work
    /\ lock' = NoLock
    /\ tx' = [u \in Writers |->
                IF u = w THEN IdleTx
                ELSE IF tx[u].pc = "begun"
                     THEN [tx[u] EXCEPT !.met = @ \cup {tx[w].p}]
                ELSE tx[u]]
    /\ meta' = MetaAfterSet(tx[w].p, tx[w].V, tx[w].stamp, tx[w].pre)
    /\ rd' = NoteCommit(tx[w].p)
    /\ ret' = [call |-> "Set", by |-> w, p |-> tx[w].p, err |-> FALSE, at |-> "commit",
               V |-> tx[w].V, stamp |-> tx[w].stamp, pre |-> tx[w].pre, met |-> tx[w].met]
    /\ ops' = ops + 1
    /\ UNCHANGED now
    /\ UNCHANGED beyondSets

\* tx.Commit() among concurrent Sets: the transaction's view becomes the
\* committed table; the Sets that are under way have met this one
SetCommitAmong(w) ==
    /\ tx[w].pc = "insert"
    /\ tx[w].i > Len(tx[w].V)
    /\ rows' = tx[w].work
    /\ lock' = NoLock
    /\ tx' = [u \in Writers |->
                IF u = w THEN IdleTx
                ELSE IF tx[u].pc = "begun"
                     THEN [tx[u] EXCEPT !.met = @ \cup {tx[w].p}]
                ELSE tx[u]]
    /\ meta' = MetaAfterSet(tx[w].p, tx[w].V, tx[w].stamp, tx[w].pre)
    /\ rd' = NoteCommit(tx[w].p)
    /\ ret' = [call |-> "Set", by |-> w, p |-> tx[w].p, err |-> FALSE, at |-> "commit",
               V |-> tx[w].V, stamp |-> tx[w].stamp, pre |-> tx[w].pre, met |-> tx[w].met]
    /\ ops' = ops + 1
    /\ UNCHANGED now
    /\ UNCHANGED beyondSets

\* a Clear whose DELETE has no WHERE clause
ClearAmongAll(w) ==
    /\ tx[w].pc = "idle"
    /\ ops + UnderWay < MaxOps
    /\ lock = NoLock
    /\ \E p \in Providers :
          /\ rows' = {}
          /\ meta' = [meta EXCEPT ![p] = NoMeta]
          /\ ret' = [call |-> "Clear", by |-> w, p |-> p, err |-> FALSE]
    /\ ops' = ops + 1
    /\ UNCHANGED <<now, lock, tx, rd>>
    /\ UNCHANGED beyondSets

\* Clear(p) by a goroutine that is in no Set: one DELETE, which waits for
\* the write lock
ClearAmong(w) ==
    /\ tx[w].pc = "idle"
    /\ ops + UnderWay < MaxOps
    /\ lock = NoLock
    /\ \E p \in Providers :
          /\ rows' = TxDelete(rows, p)
          /\ meta' = [meta EXCEPT ![p] = NoMeta]
          /\ ret' = [call |-> "Clear", by |-> w, p |-> p, err |-> FALSE]
    /\ ops' = ops + 1
    /\ UNCHANGED <<now, lock, tx, rd>>
    /\ UNCHANGED beyondSets

SetsNext ==
    \/ \E w \in Writers : SetBegin(w)
    \/ \E w \in Writers : SetDeleteBegun(w)
    \/ \E w \in Writers : SetDeleteBegunFail(w)
    \/ \E w \in Writers : SetInsert(w)
    \/ \E w \in Writers : SetInsertFail(w)
    \/ \E w \in Writers : SetCommitAmong(w)
    \/ \E w \in Writers : SetCommitFail(w)
    \/ \E w \in Writers : ClearAmong(w)
    \/ Tick

SpecSets == Init /\ [][SetsNext]_vars

(***************************************************************************)
(* CachedProvider.ListVoices and CachedProvider.ListVoicesRefresh, called  *)
(* by one goroutine; the wrapped provider answers ListVoices with any      *)
(* voice list or with an error.                                            *)
(***************************************************************************)
CpName == "p1"

\* what a call returns (err, cause, voices) and what happened in it: the
\* voices Get returned, the calls of the wrapped provider's ListVoices, what
\* it answered, whether the Set failed, whether Clear ran and the unexpired
\* voices that were stored when it ran, whether the call before it was a
\* ListVoicesRefresh in which the wrapped provider failed and the voices
\* that refresh had cleared
CpRet(call, err, cause, voices, setErr) ==
    [call |-> call, err |-> err, cause |-> cause, voices |-> voices, got |-> cp.got,
     backend |-> cp.backend, fetched |-> cp.voices, setErr |-> setErr,
     cleared |-> cp.cleared, held |-> cp.held, after |-> cp.failed, lost |-> cp.lost]

\* a ListVoices that never looks at what Get returned
LVGetIgnoresCache ==
    /\ cp.pc = "idle"
    /\ \E got \in GetResults(rows, CpName, now) :
          /\ cp' = [IdleCp EXCEPT !.pc = "fetch", !.call = "ListVoices", !.got = got]
          /\ ret' = NoRet
    /\ UNCHANGED <<rows, now, lock, tx, rd, meta>>
    /\ UNCHANGED beyondCp

\* p.cache.Get succeeds: cached voices are returned at once, none is a miss
LVGet ==
    /\ cp.pc = "idle"
    /\ \E got \in GetResults(rows, CpName, now) :
          IF Len(got) > 0
          THEN /\ ret' = [CpRet("ListVoices", FALSE, "none", got, FALSE) EXCEPT !.got = got]
               /\ cp' = IdleCp
          ELSE /\ cp' = [IdleCp EXCEPT !.pc = "fetch", !.call = "ListVoices",
                                        !.failed = cp.failed, !.lost = cp.lost]
               /\ ret' = NoRet
    /\ UNCHANGED <<rows, now, lock, tx, rd, meta>>
    /\ UNCHANGED beyondCp

\* p.cache.Get fails: return nil, "cache error: ..."
LVGetFail ==
    /\ cp.pc = "idle"
    /\ ret' = CpRet("ListVoices", TRUE, "cache read", <<>>, FALSE)
    /\ UNCHANGED <<rows, now, lock, tx, rd, meta, cp>>
    /\ UNCHANGED beyondCp

\* p.provider.ListVoices succeeds (in ListVoices and in ListVoicesRefresh)
Fetch ==
    /\ cp.pc = "fetch"
    /\ \E V \in VoiceLists :
          cp' = [cp EXCEPT !.pc = "set", !.voices = V, !.backend = @ + 1]
    /\ ret' = NoRet
    /\ UNCHANGED <<rows, now, lock, tx, rd, meta>>
    /\ UNCHANGED beyondCp

\* p.provider.ListVoices fails: its error is returned
FetchFail ==
    /\ cp.pc = "fetch"
    /\ ret' = [CpRet(cp.call, TRUE, "provider", <<>>, FALSE) EXCEPT !.backend = @ + 1]
    /\ cp' = [IdleCp EXCEPT !.failed = (cp.call = "ListVoicesRefresh"),
                            !.lost = IF cp.call = "ListVoicesRefresh" THEN cp.held ELSE {}]
    /\ UNCHANGED <<rows, now, lock, tx, rd, meta>>
    /\ UNCHANGED beyondCp

\* p.cache.Set succeeds (in ListVoices and in ListVoicesRefresh): the fetched
\* voices are returned
Store ==
    /\ cp.pc = "set"
    /\ lock = NoLock
    /\ SetTx(rows, CpName, cp.voices, now).ok
    /\ rows' = SetTx(rows, CpName, cp.voices, now).table
    /\ meta' = MetaAfterSet(CpName, cp.voices, now, RowsOf(rows, CpName))
    /\ rd' = NoteCommit(CpName)
    /\ ret' = CpRet(cp.call, FALSE, "none", cp.voices, FALSE)
    /\ cp' = IdleCp
    /\ UNCHANGED <<now, lock, tx>>
    /\ UNCHANGED beyondCp

\* a ListVoices that returns the error of a failed Set
LVStoreFailReturnsError ==
    /\ cp.pc = "set"
    /\ cp.call = "ListVoices"
    /\ ret' = CpRet("ListVoices", TRUE, "cache write", <<>>, TRUE)
    /\ cp' = IdleCp
    /\ UNCHANGED <<rows, now, lock, tx, rd, meta>>
    /\ UNCHANGED beyondCp

\* p.cache.Set fails in ListVoices (a taken key, a locked database, any other
\* error; the transaction is rolled back): a warning is printed and the fetched
\* voices are returned
LVStoreFail ==
    /\ cp.pc = "set"
    /\ cp.call = "ListVoices"
    /\ ret' = CpRet("ListVoices", FALSE, "none", cp.voices, TRUE)
    /\ cp' = IdleCp
    /\ UNCHANGED <<rows, now, lock, tx, rd, meta>>
    /\ UNCHANGED beyondCp

\* a ListVoicesRefresh whose Clear removes no row
RFClearKeepsRows ==
    /\ cp.pc = "idle"
    /\ lock = NoLock
    /\ cp' = [IdleCp EXCEPT !.pc = "fetch", !.call = "ListVoicesRefresh", !.cleared = TRUE,
                             !.held = VoicesIn(FreshRows(rows, CpName, now - CacheTTL))]
    /\ ret' = NoRet
    /\ UNCHANGED <<rows, now, lock, tx, rd, meta>>
    /\ UNCHANGED beyondCp

\* p.cache.Clear succeeds in ListVoicesRefresh
RFClear ==
    /\ cp.pc = "idle"
    /\ lock = NoLock
    /\ rows' = TxDelete(rows, CpName)
    /\ meta' = [meta EXCEPT ![CpName] = NoMeta]
    /\ cp' = [IdleCp EXCEPT !.pc = "fetch", !.call = "ListVoicesRefresh", !.cleared = TRUE,
                             !.held = VoicesIn(FreshRows(rows, CpName, now - CacheTTL))]
    /\ ret' = NoRet
    /\ UNCHANGED <<now, lock, tx, rd>>
    /\ UNCHANGED beyondCp

\* p.cache.Clear fails in ListVoicesRefresh: "failed to clear cache"
RFClearFail ==
    /\ cp.pc = "idle"
    /\ ret' = CpRet("ListVoicesRefresh", TRUE, "cache clear", <<>>, FALSE)
    /\ UNCHANGED <<rows, now, lock, tx, rd, meta, cp>>
    /\ UNCHANGED beyondCp

\* a ListVoicesRefresh that only logs a failed Set and returns the voices
RFStoreFailLogsOnly ==
    /\ cp.pc = "set"
    /\ cp.call = "ListVoicesRefresh"
    /\ ret' = CpRet("ListVoicesRefresh", FALSE, "none", cp.voices, TRUE)
    /\ cp' = IdleCp
    /\ UNCHANGED <<rows, now, lock, tx, rd, meta>>
    /\ UNCHANGED beyondCp

\* p.cache.Set fails in ListVoicesRefresh: "failed to cache voices"
RFStoreFail ==
    /\ cp.pc = "set"
    /\ cp.call = "ListVoicesRefresh"
    /\ ret' = CpRet("ListVoicesRefresh", TRUE, "cache write", <<>>, TRUE)
    /\ cp' = IdleCp
    /\ UNCHANGED <<rows, now, lock, tx, rd, meta>>
    /\ UNCHANGED beyondCp

CpNext ==
    \/ LVGet
    \/ LVGetFail
    \/ Fetch
    \/ FetchFail
    \/ Store
    \/ LVStoreFail
    \/ RFClear
    \/ RFClearFail
    \/ RFStoreFail
    \/ SetDelete("w1")
    \/ SetInsert("w1")
    \/ SetInsertFail("w1")
    \/ SetCommit("w1")
    \/ SetCommitFail("w1")
    \/ Clear("w1")
    \/ Tick

SpecCp == Init /\ [][CpNext]_vars

\* the calls of one CachedProvider that is alone on its cache
CpAloneNext ==
    \/ LVGet
    \/ LVGetFail
    \/ Fetch
    \/ FetchFail
    \/ Store
    \/ LVStoreFail
    \/ RFClear
    \/ RFClearFail
    \/ RFStoreFail
    \/ Tick

SpecCpAlone == Init /\ [][CpAloneNext]_vars

(***************************************************************************)
(* The voice-listing command: cli.ListVoices asks for the cache info, then *)
(* getVoices calls ListVoicesRefresh or ListVoices of the CachedProvider   *)
(* and shows its hints.                                                    *)
(***************************************************************************)
\* cachedProvider.GetCacheInfo succeeds in cli.ListVoices; the call of
\* getVoices follows
CmdListVoices(refreshCache) ==
    /\ cmd.pc = "idle"
    /\ cp.pc = "idle"
    /\ cmd' = [pc |-> "called", refreshCache |-> refreshCache, infoErr |-> FALSE,
               count |-> CacheInfoOf(rows, CpName).Count]
    /\ ret' = NoRet
    /\ UNCHANGED beyondCmd

\* cachedProvider.GetCacheInfo fails in cli.ListVoices: cacheInfo is nil,
\* the command goes on
CmdListVoicesNoInfo(refreshCache) ==
    /\ cmd.pc = "idle"
    /\ cp.pc = "idle"
    /\ cmd' = [pc |-> "called", refreshCache |-> refreshCache, infoErr |-> TRUE, count |-> 0]
    /\ ret' = NoRet
    /\ UNCHANGED beyondCmd

\* the call getVoices makes has not begun
NotBegun == cmd.pc = "called" /\ cp.pc = "idle" /\ ret = NoRet

\* the call getVoices makes has begun and has not returned
Begun == cmd.pc = "called" /\ cp.pc # "idle"

\* the call getVoices makes has returned
Returned ==
    cmd.pc = "called" /\ cp.pc = "idle" /\ ret.call \in {"ListVoices", "ListVoicesRefresh"}

\* the rest of getVoices and of cli.ListVoices once the call has returned:
\* an error is wrapped and returned; after ListVoices the hint "(using
\* cached voices - use -refresh-cache to update)" is shown if cacheInfo is
\* not nil and counts a voice; the voices are displayed
getVoices ==
    /\ Returned
    /\ ret' = [call |-> "cli.ListVoices", err |-> ret.err, refreshCache |-> cmd.refreshCache,
               infoErr |-> cmd.infoErr, count |-> cmd.count,
               hint |-> (~ret.err /\ ~cmd.refreshCache /\ ~cmd.infoErr /\ cmd.count > 0),
               voices |-> ret.voices, got |-> ret.got, backend |-> ret.backend]
    /\ cmd' = IdleCmd
    /\ UNCHANGED beyondCmd

\* a second passes while no command runs or before its call has returned
CmdTick == ~Returned /\ Tick

CmdNext ==
    \/ \E refreshCache \in BOOLEAN : CmdListVoices(refreshCache)
    \/ \E refreshCache \in BOOLEAN : CmdListVoicesNoInfo(refreshCache)
    \/ NotBegun /\ ~cmd.refreshCache /\ LVGet
    \/ NotBegun /\ ~cmd.refreshCache /\ LVGetFail
    \/ NotBegun /\ cmd.refreshCache /\ RFClear
    \/ NotBegun /\ cmd.refreshCache /\ RFClearFail
    \/ Begun /\ Fetch
    \/ Begun /\ FetchFail
    \/ Begun /\ Store
    \/ Begun /\ LVStoreFail
    \/ Begun /\ RFStoreFail
    \/ getVoices
    \/ CmdTick

SpecCmd == Init /\ [][CmdNext]_vars

(***************************************************************************)
(* Client.retryableHTTPRequest of the ElevenLabs client.                   *)
(***************************************************************************)
\* longest request body, in bytes
MaxBody == 2

\* a loop that gives up after four failed attempts
MaxRetriesFour == 3 + 1

\* maxRetries := 3
MaxRetries == 3

\* what c.httpClient.Do can yield: a response with a status, or an error and
\* no response (written as status NetErr)
NetErr == 0
Statuses == {200, 401, 404, 429, 500, 502, 503}
Outcomes == {NetErr} \cup Statuses

\* a shouldRetry that also retries 401
shouldRetryAlso401(statusCode) ==
    statusCode = 401 \/ statusCode = 429 \/ statusCode = 500 \/ statusCode = 502 \/ statusCode = 503

shouldRetry(statusCode) ==
    statusCode = 429 \/ statusCode = 500 \/ statusCode = 502 \/ statusCode = 503

\* the request bodies: none (GET /voices) or the bytes of the marshalled
\* TTSRequest (POST /text-to-speech), read by the transport through one reader
Bodies == {[k \in 1..n |-> k] : n \in 0..MaxBody}

\* req.Clone(ctx) copies the Body field as it is (the clone reads from the
\* reader of the original request): the bytes an attempt has to send are the
\* bytes no earlier attempt has read
CloneBody(body, unread) == SubSeq(body, Len(body) - unread + 1, Len(body))

\* the caller hands over a request
Start ==
    /\ rq.pc = "idle"
    /\ \E b \in Bodies : rq' = [IdleRq EXCEPT !.pc = "attempt", !.body = b, !.unread = Len(b)]
    /\ UNCHANGED beyondRetry

\* what Do can yield for the clone: a request whose context is done, or whose
\* body has fewer bytes left than its ContentLength, fails in the transport
Possible ==
    IF rq.cancelled \/ rq.unread < Len(rq.body) THEN {NetErr} ELSE Outcomes

\* the bytes of the body the transport has read when Do returns: all that were
\* left when a response came back, all or none on a network error
LeftUnread(o) == IF o = NetErr THEN {0, rq.unread} ELSE {0}

\* a loop that, once an attempt has failed, hands back the last error also
\* when a later attempt brings a response that is not to be retried
AttemptKeepsLastErr ==
    /\ rq.pc = "attempt"
    /\ \E o \in Possible : \E left \in LeftUnread(o) :
        LET k    == Len(rq.outcomes) + 1
            seen == [rq EXCEPT !.outcomes = Append(@, o),
                               !.sent = Append(@, CloneBody(rq.body, rq.unread)),
                               !.unread = left]
        IN IF o # NetErr /\ ~shouldRetry(o)
           THEN rq' = [seen EXCEPT !.pc = "done",
                                   !.result = IF rq.retryCount > 0 THEN <<"err", k - 1>>
                                              ELSE <<"resp", o>>]
           ELSE LET failed == [seen EXCEPT !.lastErr = <<o, k>>, !.retryCount = @ + 1]
                IN IF failed.retryCount >= MaxRetries
                   THEN rq' = [failed EXCEPT !.pc = "done", !.result = <<"err", k>>]
                   ELSE IF rq.cancelled
                   THEN rq' = [failed EXCEPT !.pc = "done", !.result = <<"ctx", k>>]
                   ELSE rq' = [failed EXCEPT !.pc = "wait", !.waits = @ + 1]
    /\ UNCHANGED beyondRetry

\* one operation(): clone, Do, classify; then the loop's bookkeeping up to the
\* return or to the wait
Attempt ==
    /\ rq.pc = "attempt"
    /\ \E o \in Possible : \E left \in LeftUnread(o) :
        LET k    == Len(rq.outcomes) + 1
            seen == [rq EXCEPT !.outcomes = Append(@, o),
                               !.sent = Append(@, CloneBody(rq.body, rq.unread)),
                               !.unread = left]
        IN IF o # NetErr /\ ~shouldRetry(o)
           THEN \* return resp, nil
                rq' = [seen EXCEPT !.pc = "done", !.result = <<"resp", o>>]
           ELSE LET failed == [seen EXCEPT !.lastErr = <<o, k>>, !.retryCount = @ + 1]
                IN IF failed.retryCount >= MaxRetries
                   THEN \* return nil, lastErr
                        rq' = [failed EXCEPT !.pc = "done", !.result = <<"err", k>>]
                   ELSE IF rq.cancelled
                   THEN \* case <-ctx.Done(): return nil, ctx.Err()
                        rq' = [failed EXCEPT !.pc = "done", !.result = <<"ctx", k>>]
                   ELSE \* wait := expBackoff.NextBackOff(); select { ... }
                        rq' = [failed EXCEPT !.pc = "wait", !.waits = @ + 1]
    /\ UNCHANGED beyondRetry

\* the caller cancels the context (or its deadline passes)
Cancel ==
    /\ rq.pc \in {"attempt", "wait"}
    /\ ~rq.cancelled
    /\ rq' = [rq EXCEPT !.cancelled = TRUE,
                        !.cancelledAt = IF rq.pc = "wait" THEN Len(rq.outcomes) ELSE 0]
    /\ UNCHANGED beyondRetry

\* case <-ctx.Done() of the select: return nil, ctx.Err()
WaitCancelled ==
    /\ rq.pc = "wait"
    /\ rq.cancelled
    /\ rq' = [rq EXCEPT !.pc = "done", !.result = <<"ctx", Len(rq.outcomes)>>]
    /\ UNCHANGED beyondRetry

\* a wait that sleeps out the interval whatever becomes of the context
WaitSleeps ==
    /\ rq.pc = "wait"
    /\ rq' = [rq EXCEPT !.pc = "attempt"]
    /\ UNCHANGED beyondRetry

\* case <-time.After(wait) of the select: the timer fires before the context
\* is done, on to the next attempt
WaitElapsed ==
    /\ rq.pc = "wait"
    /\ ~rq.cancelled
    /\ rq' = [rq EXCEPT !.pc = "attempt"]
    /\ UNCHANGED beyondRetry

\* the caller is back and may send its next request
Finish ==
    /\ rq.pc = "done"
    /\ rq' = IdleRq
    /\ UNCHANGED beyondRetry

RetryNext ==
    \/ Start
    \/ Attempt
    \/ Cancel
    \/ WaitCancelled
    \/ WaitElapsed
    \/ Finish

SpecRetry == Init /\ [][RetryNext]_vars

(***************************************************************************)
(* Client.Generate and Client.ListVoices of the ElevenLabs client: the     *)
(* request handed to retryableHTTPRequest and what becomes of its result.  *)
(***************************************************************************)
\* longest response body, in bytes
MaxResp == 2

\* the bodies a response can carry
RespBodies == {[k \in 1..n |-> k] : n \in 0..MaxResp}

\* the two calls of the client that go through retryableHTTPRequest
Apis == {"elevenlabs.Generate", "elevenlabs.ListVoices"}

\* Generate posts the marshalled TTSRequest, which is never empty;
\* ListVoices gets /voices with no body
BodiesOf(api) ==
    IF api = "elevenlabs.Generate" THEN Bodies \ {<<>>} ELSE {<<>>}

\* c.retryableHTTPRequest(ctx, httpReq) of a new call
Call(api) ==
    /\ rq.pc = "idle"
    /\ \E b \in BodiesOf(api) :
          rq' = [IdleRq EXCEPT !.pc = "attempt", !.body = b, !.unread = Len(b)]
    /\ ret' = NoRet
    /\ UNCHANGED beyondApi

\* body, _ := io.ReadAll(resp.Body): all bytes of the body, or the bytes read
\* before an error that the code drops
ReadAll(body) ==
    {[data |-> SubSeq(body, 1, n), failed |-> n < Len(body)] : n \in 0..Len(body)}

\* an error that carries the status alone
ErrorfStatusOnly(status, body) == [status |-> status, body |-> <<>>]

\* fmt.Errorf("API request failed with status %d: %s", resp.StatusCode, string(body))
Errorf(status, body) == [status |-> status, body |-> body]

\* what the call hands back to its caller, with the attempts it took
ApiRet(api, err, cause, error, respBody, read) ==
    [call |-> api, err |-> err, cause |-> cause, error |-> error,
     respBody |-> respBody, read |-> read,
     last |-> rq.outcomes[Len(rq.outcomes)], attempts |-> Len(rq.outcomes),
     waits |-> rq.waits]

\* the request the call in progress has sent tells which call it is
ApiInProgress(api) == rq.pc = "done" /\ rq.body \in BodiesOf(api)

\* if err != nil: return fmt.Errorf("failed to execute request: %w", err)
ExecuteFailed(api) ==
    /\ ApiInProgress(api)
    /\ rq.result[1] \in {"err", "ctx"}
    /\ ret' = ApiRet(api, TRUE, "failed to execute request", rq.result, <<>>,
                     [data |-> <<>>, failed |-> FALSE])
    /\ rq' = IdleRq
    /\ UNCHANGED beyondApi

\* if resp.StatusCode != http.StatusOK: read the body and return the error
StatusError(api) ==
    /\ ApiInProgress(api)
    /\ rq.result[1] = "resp" /\ rq.result[2] # 200
    /\ \E b \in RespBodies : \E read \in ReadAll(b) :
          ret' = ApiRet(api, TRUE, "API request failed",
                        Errorf(rq.result[2], read.data), b, read)
    /\ rq' = IdleRq
    /\ UNCHANGED beyondApi

\* status 200: Generate writes the audio to the output file, ListVoices
\* decodes the voices; either can still fail on the way
StatusOK(api) ==
    /\ ApiInProgress(api)
    /\ rq.result = <<"resp", 200>>
    /\ \E b \in RespBodies : \E failed \in BOOLEAN :
          ret' = ApiRet(api, failed,
                        IF ~failed THEN "none"
                        ELSE IF api = "elevenlabs.Generate" THEN "failed to write audio data"
                        ELSE "failed to decode response",
                        <<>>, b, [data |-> b, failed |-> failed])
    /\ rq' = IdleRq
    /\ UNCHANGED beyondApi

ApiNext ==
    \/ \E api \in Apis : Call(api)
    \/ Attempt
    \/ Cancel
    \/ WaitCancelled
    \/ WaitElapsed
    \/ \E api \in Apis : ExecuteFailed(api)
    \/ \E api \in Apis : StatusError(api)
    \/ \E api \in Apis : StatusOK(api)

SpecApi == Init /\ [][ApiNext]_vars

(***************************************************************************)
(* Generate of the four providers (say, espeak, elevenlabs, google), each  *)
(* as one call: what it does with req.Text before it synthesizes.          *)
(***************************************************************************)
\* longest request text, in characters
MaxMd == 3

\* the backtick character (written ^, a string here cannot hold a backtick)
Backtick == "^"

\* the characters of a request text: a letter, a blank, a backtick
MdChars == {"w", " ", Backtick}
MdTexts == SeqsUpTo(MdChars, MaxMd)

\* whitespacePattern.ReplaceAllString(text, " "): a run of blanks becomes one
RECURSIVE CollapseSpace(_)
CollapseSpace(s) ==
    IF Len(s) < 2 THEN s
    ELSE IF s[1] = " " /\ s[2] = " " THEN CollapseSpace(Tail(s))
    ELSE <<s[1]>> \o CollapseSpace(Tail(s))

\* the position of the first backtick of s after position i, 0 if none
RECURSIVE NextTick(_, _)
NextTick(s, i) ==
    IF i >= Len(s) THEN 0
    ELSE IF s[i + 1] = Backtick THEN i + 1
    ELSE NextTick(s, i + 1)

\* codeBlockPattern.ReplaceAllString(text, ""): from the left, every backtick
\* that is followed by at least one other character and then a backtick is
\* removed with all that is up to this second backtick
RECURSIVE RemoveCode(_)
RemoveCode(s) ==
    IF s = <<>> THEN s
    ELSE IF s[1] = Backtick /\ NextTick(s, 1) > 2
         THEN RemoveCode(SubSeq(s, NextTick(s, 1) + 1, Len(s)))
    ELSE <<s[1]>> \o RemoveCode(Tail(s))

\* strings.TrimSpace
RECURSIVE TrimLeft(_)
TrimLeft(s) == IF s # <<>> /\ s[1] = " " THEN TrimLeft(Tail(s)) ELSE s

RECURSIVE TrimRight(_)
TrimRight(s) ==
    IF s # <<>> /\ s[Len(s)] = " " THEN TrimRight(SubSeq(s, 1, Len(s) - 1)) ELSE s

TrimSpace(s) == TrimRight(TrimLeft(s))

\* text.CleanMarkdown on texts of these characters (no link, no emphasis)
CleanMarkdown(text) == TrimSpace(RemoveCode(CollapseSpace(text)))

\* what Generate returns, and the text it handed to the synthesizer, if any
GenRet(backend, text, err, cause, given, spoken) ==
    [call |-> "Generate", backend |-> backend, text |-> text, err |-> err, cause |-> cause,
     given |-> given, spoken |-> spoken]

\* what can go wrong in the say and espeak providers once the text is there
CommandCauses ==
    {"failed to create output directory", "command failed", "conversion failed", "none"}

\* Provider.Generate of say and of espeak: no text after cleaning is an
\* error, else the command is run on the clean text
CommandGenerate(backend) ==
    /\ \E text \in MdTexts :
          LET cleanText == CleanMarkdown(text) IN
          IF TrimSpace(cleanText) = <<>>
          THEN ret' = GenRet(backend, text, TRUE, "no text to generate audio from", FALSE, <<>>)
          ELSE \E cause \in CommandCauses :
                  ret' = GenRet(backend, text, cause # "none", cause,
                                cause # "failed to create output directory", cleanText)
    /\ UNCHANGED beyondGen

\* the two providers that run a local command
CommandBackends == {"say", "espeak"}

\* what can go wrong in Client.Generate of elevenlabs once the request is made
ElevenLabsCauses ==
    {"failed to execute request", "API request failed", "failed to create output directory",
     "failed to create output file", "failed to write audio data", "none"}

\* Client.Generate of elevenlabs: req.Text goes into the TTSRequest as it is
\* and the request is sent; the answer decides
ElevenLabsGenerate ==
    /\ \E text \in MdTexts : \E cause \in ElevenLabsCauses :
          ret' = GenRet("elevenlabs", text, cause # "none", cause, TRUE, text)
    /\ UNCHANGED beyondGen

\* what can go wrong in Client.Generate of google once the request is made
GoogleCauses ==
    {"failed to synthesize speech", "failed to create output directory",
     "failed to create output file", "failed to write audio data", "none"}

\* Client.Generate of google: req.Text is the SynthesisInput as it is
GoogleGenerate ==
    /\ \E text \in MdTexts : \E cause \in GoogleCauses :
          ret' = GenRet("google", text, cause # "none", cause, TRUE, text)
    /\ UNCHANGED beyondGen

GenNext ==
    \/ \E backend \in CommandBackends : CommandGenerate(backend)
    \/ ElevenLabsGenerate
    \/ GoogleGenerate

SpecGen == Init /\ [][GenNext]_vars

(***************************************************************************)
(* ProcessDirectory and processSingleFile of the processor, with the       *)
(* parser's ParseMarkdownFile: the files of a directory one after the      *)
(* other, the sections of a file one after the other.                      *)
(***************************************************************************)
\* most H2 sections in one markdown file, most markdown files in a directory
MaxSections == 2
MaxFiles == 2

\* what can stand under an H2 heading: nothing, a word, a code span alone
SectionTexts == {<<>>, <<"w">>, <<Backtick, "w", Backtick>>}

\* a markdown file: the texts under its H2 headings, in the order of the file
Documents == SeqsUpTo(SectionTexts, MaxSections)

\* what FindMarkdownFiles can find in a directory
Directories == SeqsUpTo(Documents, MaxFiles)

\* saveSection: the section is kept when text is left after cleaning (its
\* title stands for the k-th heading of the file)
saveSection(sections, k, contentLines) ==
    LET sectionText == CleanMarkdown(contentLines)
    IN IF sectionText # <<>>
       THEN Append(sections, [Title |-> k, Content |-> sectionText])
       ELSE sections

\* the loop of ParseMarkdownFile over the lines, one heading after the other
RECURSIVE ParseFrom(_, _, _)
ParseFrom(doc, k, sections) ==
    IF k > Len(doc) THEN sections
    ELSE ParseFrom(doc, k + 1, saveSection(sections, k, doc[k]))

ParseMarkdownFile(doc) == ParseFrom(doc, 1, <<>>)

\* why processSingleFile can fail once the file has sections
SetupCauses == {"error creating output directory", "error creating TTS provider"}

\* processSingleFile has returned for file run.i: ProcessDirectory notes it
\* (a warning and no counts when it failed) and goes on to the next file
NextFile(err, cause, looped, successCount, sectionCount) ==
    [run EXCEPT !.pc = "file", !.i = @ + 1,
                !.visited = Append(@, [file |-> run.i, err |-> err, cause |-> cause,
                                       looped |-> looped]),
                !.warnings = IF err THEN @ + 1 ELSE @,
                !.totalSuccess = IF err THEN @ ELSE @ + successCount,
                !.totalSections = IF err THEN @ ELSE @ + sectionCount]

\* what ProcessDirectory returns, and what it did
RunRet(err, cause, dir, r) ==
    [call |-> "ProcessDirectory", err |-> err, cause |-> cause, dir |-> dir,
     visited |-> r.visited, calls |-> r.calls, warnings |-> r.warnings,
     totalSuccess |-> r.totalSuccess, totalSections |-> r.totalSections]

NewRun(dir, dryRun) ==
    [pc |-> "file", dir |-> dir, dryRun |-> dryRun, i |-> 1, sections |-> <<>>, j |-> 0,
     successCount |-> 0, totalSuccess |-> 0, totalSections |-> 0, warnings |-> 0,
     visited |-> <<>>, calls |-> <<>>]

\* ProcessDirectory has returned
RunOver == [pc |-> "over"]

\* ProcessDirectory up to its loop: no markdown file is an error
ProcessDirectory ==
    /\ run.pc = "idle"
    /\ \E dir \in Directories : \E dryRun \in BOOLEAN :
          IF Len(dir) = 0
          THEN /\ ret' = RunRet(TRUE, "no markdown files found", dir, NewRun(dir, dryRun))
               /\ run' = RunOver
          ELSE /\ run' = NewRun(dir, dryRun)
               /\ ret' = NoRet
    /\ UNCHANGED beyondRun

\* parser.FindMarkdownFiles fails
ScanFail ==
    /\ run.pc = "idle"
    /\ ret' = RunRet(TRUE, "failed to scan directory", <<>>, NewRun(<<>>, FALSE))
    /\ run' = RunOver
    /\ UNCHANGED beyondRun

\* a failed file that ends the whole batch
FileFailAborts ==
    /\ run.pc = "file" /\ run.i <= Len(run.dir)
    /\ \E cause \in {"error parsing markdown"} \cup SetupCauses :
          /\ cause \in SetupCauses => Len(ParseMarkdownFile(run.dir[run.i])) > 0
          /\ ret' = RunRet(TRUE, cause, run.dir, run)
          /\ run' = RunOver
    /\ UNCHANGED beyondRun

\* processSingleFile fails (the file cannot be parsed, or it has sections
\* and the output directory or the provider cannot be made)
FileFail ==
    /\ run.pc = "file" /\ run.i <= Len(run.dir)
    /\ \E cause \in {"error parsing markdown"} \cup SetupCauses :
          /\ cause \in SetupCauses => Len(ParseMarkdownFile(run.dir[run.i])) > 0
          /\ run' = NextFile(TRUE, cause, FALSE, 0, 0)
    /\ ret' = NoRet
    /\ UNCHANGED beyondRun

\* processSingleFile finds no section: 0, 0, nil
FileNoSections ==
    /\ run.pc = "file" /\ run.i <= Len(run.dir)
    /\ Len(ParseMarkdownFile(run.dir[run.i])) = 0
    /\ run' = NextFile(FALSE, "none", FALSE, 0, 0)
    /\ ret' = NoRet
    /\ UNCHANGED beyondRun

\* cfg.DryRun: handleDryRun lists the sections and generates nothing
FileDryRun ==
    /\ run.pc = "file" /\ run.i <= Len(run.dir)
    /\ run.dryRun
    /\ LET sections == ParseMarkdownFile(run.dir[run.i])
       IN /\ Len(sections) > 0
          /\ run' = NextFile(FALSE, "none", FALSE, Len(sections), Len(sections))
    /\ ret' = NoRet
    /\ UNCHANGED beyondRun

\* processSingleFile gets to its loop over the sections
FileStart ==
    /\ run.pc = "file" /\ run.i <= Len(run.dir)
    /\ ~run.dryRun
    /\ LET sections == ParseMarkdownFile(run.dir[run.i])
       IN /\ Len(sections) > 0
          /\ run' = [run EXCEPT !.pc = "section", !.sections = sections, !.j = 1,
                                !.successCount = 0]
    /\ ret' = NoRet
    /\ UNCHANGED beyondRun

\* a loop that gives up the file at the first section that fails
GenerateSectionStopsOnError ==
    /\ run.pc = "section" /\ run.j <= Len(run.sections)
    /\ \E ok \in BOOLEAN :
          run' = [run EXCEPT !.j = IF ok THEN @ + 1 ELSE Len(run.sections) + 1,
                             !.successCount = IF ok THEN @ + 1 ELSE @,
                             !.calls = Append(@, [file |-> run.i, section |-> run.sections[run.j],
                                                  index |-> run.j, ok |-> ok])]
    /\ ret' = NoRet
    /\ UNCHANGED beyondRun

\* one turn of the loop: generator.Generate(section, i+1) succeeds or fails
GenerateSection ==
    /\ run.pc = "section" /\ run.j <= Len(run.sections)
    /\ \E ok \in BOOLEAN :
          run' = [run EXCEPT !.j = @ + 1,
                             !.successCount = IF ok THEN @ + 1 ELSE @,
                             !.calls = Append(@, [file |-> run.i, section |-> run.sections[run.j],
                                                  index |-> run.j, ok |-> ok])]
    /\ ret' = NoRet
    /\ UNCHANGED beyondRun

\* the loop is over: successCount, len(sections), nil
FileDone ==
    /\ run.pc = "section" /\ run.j > Len(run.sections)
    /\ run' = [NextFile(FALSE, "none", TRUE, run.successCount, Len(run.sections))
                  EXCEPT !.sections = <<>>, !.j = 0, !.successCount = 0]
    /\ ret' = NoRet
    /\ UNCHANGED beyondRun

\* all files are done: the summary, and nil
DirectoryDone ==
    /\ run.pc = "file" /\ run.i > Len(run.dir)
    /\ ret' = RunRet(FALSE, "none", run.dir, run)
    /\ run' = RunOver
    /\ UNCHANGED beyondRun

\* the command is over; the next one starts afresh
RunExit ==
    /\ run.pc = "over"
    /\ run' = NoRun
    /\ ret' = NoRet
    /\ UNCHANGED beyondRun

RunNext ==
    \/ ProcessDirectory
    \/ ScanFail
    \/ FileFail
    \/ FileNoSections
    \/ FileDryRun
    \/ FileStart
    \/ GenerateSection
    \/ FileDone
    \/ DirectoryDone
    \/ RunExit

SpecRun == Init /\ [][RunNext]_vars

(***************************************************************************)
(* The duration fitters: estimateSpeakingRate of the generator and the     *)
(* calculateSpeed of the ElevenLabs and of the Google client. A text is a  *)
(* sequence of characters, a target duration a number of tenths of a       *)
(* second, and a float64 value the fraction <<n, d>>: n / d when d > 0,    *)
(* +Inf when d = 0 < n, and a negative number when d < 0 < n.              *)
(***************************************************************************)
MaxText == 9

Chars == {"w", " "}
Texts == SeqsUpTo(Chars, MaxText)

\* the target durations a caller passes, in tenths of a second
Durations == {0 - 10, 0, 1, 3, 4, 5, 6, 10, 16, 300, 600}

\* tenths of a second in a minute
PerMinute == 600

\* a < b and a = b for float64 values
FloatLess(a, b) ==
    IF a[2] = 0 THEN FALSE
    ELSE IF b[2] = 0 THEN TRUE
    ELSE IF a[2] * b[2] > 0 THEN a[1] * b[2] < b[1] * a[2]
    ELSE a[1] * b[2] > b[1] * a[2]

FloatEqual(a, b) == ~FloatLess(a, b) /\ ~FloatLess(b, a)

\* float64(i)
Float(i) == <<i, 1>>

\* int(x) of a float64 that is not negative: the fraction is dropped
Truncate(x) == x[1] \div x[2]

\* len(strings.Fields(text)): the runs of characters that are not spaces
CountWords(text) ==
    Cardinality({k \in DOMAIN text : text[k] # " " /\ (k = 1 \/ text[k - 1] = " ")})

\* float64(wordCount) / (durationSeconds / 60.0), 0 for no duration
CalculateWPM(wordCount, duration) ==
    IF duration <= 0 THEN Float(0) ELSE <<PerMinute * wordCount, duration>>

\* (float64(wordCount) / wordsPerMinute) * 60.0, in tenths of a second
EstimateDuration(text, wordsPerMinute) ==
    IF wordsPerMinute <= 0 THEN Float(0) ELSE <<PerMinute * CountWords(text), wordsPerMinute>>

ClampInt(value, min, max) ==
    IF value < min THEN min ELSE IF value > max THEN max ELSE value

\* a clamp that hands back any value
ClampFloat64Not(value, min, max) == value

ClampFloat64(value, min, max) ==
    IF FloatLess(value, min) THEN min ELSE IF FloatLess(max, value) THEN max ELSE value

minWPM == 90
maxWPM == 360
defaultWPM == 180
adjustmentFactor == <<95, 100>>

\* estimateSpeakingRate(textContent, targetDuration, log): the rate returned,
\* the warnings logged, and the rate before the clamp
estimateSpeakingRate(textContent, targetDuration) ==
    LET wordCount   == CountWords(textContent)
        requiredWPM == CalculateWPM(wordCount, targetDuration)
        adjustedWPM == <<requiredWPM[1] * adjustmentFactor[1], requiredWPM[2] * adjustmentFactor[2]>>
    IN IF ~FloatLess(Float(0), requiredWPM)
       THEN [out |-> defaultWPM, warnings |-> <<>>, unclamped |-> defaultWPM]
       ELSE [out |-> ClampInt(Truncate(adjustedWPM), minWPM, maxWPM),
             warnings |-> IF FloatLess(Float(maxWPM), adjustedWPM)
                          THEN <<[kind |-> "exceeds maximum", names |-> requiredWPM,
                                  bound |-> maxWPM]>>
                          ELSE <<>>,
             unclamped |-> Truncate(adjustedWPM)]

naturalWPM == 150
defaultSpeed == <<1, 1>>

\* the body of both calculateSpeed functions, which differ in minSpeed and
\* maxSpeed: the speed returned, the warnings written to stderr and the
\* speed before the clamp
SpeedFor(text, targetDuration, min, max) ==
    LET wordCount       == CountWords(text)
        naturalDuration == EstimateDuration(text, naturalWPM)
        originalSpeed   == <<naturalDuration[1], naturalDuration[2] * targetDuration>>
        speed           == ClampFloat64(originalSpeed, min, max)
    IN IF wordCount = 0
       THEN [out |-> defaultSpeed, warnings |-> <<>>, unclamped |-> defaultSpeed]
       ELSE [out |-> speed,
             warnings |->
                IF FloatEqual(speed, originalSpeed) THEN <<>>
                ELSE IF FloatLess(originalSpeed, min)
                THEN <<[kind |-> "below minimum", names |-> originalSpeed, bound |-> min,
                        audio |-> "longer than target"]>>
                ELSE <<[kind |-> "exceeds maximum", names |-> originalSpeed, bound |-> max,
                        audio |-> "shorter than target"]>>,
             unclamped |-> originalSpeed]

\* ElevenLabs: 0.7 to 1.2
minSpeed == <<7, 10>>
maxSpeed == <<12, 10>>
calculateSpeed(text, targetDuration) == SpeedFor(text, targetDuration, minSpeed, maxSpeed)

\* Google Cloud TTS: 0.25 to 4.0
googleMinSpeed == <<25, 100>>
googleMaxSpeed == <<4, 1>>
googleCalculateSpeed(text, targetDuration) ==
    SpeedFor(text, targetDuration, googleMinSpeed, googleMaxSpeed)

\* a caller has a text and a target duration to fit
FitCall ==
    /\ fit.pc = "idle"
    /\ \E text \in Texts, targetDuration \in Durations :
          fit' = [pc |-> "called", text |-> text, target |-> targetDuration]
    /\ UNCHANGED beyondFit

\* what a fitter has made of the text and the target
Fitted(fn, res) ==
    [pc |-> "done", fn |-> fn, text |-> fit.text, target |-> fit.target, out |-> res.out,
     warnings |-> res.warnings, unclamped |-> res.unclamped]

FitRate ==
    /\ fit.pc = "called"
    /\ fit' = Fitted("estimateSpeakingRate", estimateSpeakingRate(fit.text, fit.target))
    /\ UNCHANGED beyondFit

FitSpeed ==
    /\ fit.pc = "called"
    /\ fit' = Fitted("calculateSpeed", calculateSpeed(fit.text, fit.target))
    /\ UNCHANGED beyondFit

FitGoogleSpeed ==
    /\ fit.pc = "called"
    /\ fit' = Fitted("google calculateSpeed", googleCalculateSpeed(fit.text, fit.target))
    /\ UNCHANGED beyondFit

\* the caller goes on with the value
FitReturn ==
    /\ fit.pc = "done"
    /\ fit' = NoFit
    /\ UNCHANGED beyondFit

FitNext ==
    \/ FitCall
    \/ FitRate
    \/ FitSpeed
    \/ FitGoogleSpeed
    \/ FitReturn

SpecFit == Init /\ [][FitNext]_vars

(***************************************************************************)
(* Claims about the voice cache.                                           *)
(***************************************************************************)
NoRepeat(s) == \A i, j \in DOMAIN s : i # j => s[i] # s[j]

\* C1: after Set(p, V1) and then Set(p, V2) have succeeded, a Get(p) that
\* finds the entries unexpired returns exactly the voices of V2, each once:
\* no voice that is only in V1, no union, no part of V2.
C1_GetAfterTwoSets ==
    (ret.call = "Get" /\ ~ret.err /\ ret.twice)
        => (Range(ret.voices) = ret.whole /\ NoRepeat(ret.voices))

\* a Get returned V2 after a Set that replaced a V1 holding a voice not in V2
C1_Witness ==
    /\ ret.call = "Get" /\ ~ret.err /\ ret.twice /\ ~ret.during
    /\ meta[ret.p].nsets = 2 /\ meta[ret.p].dropped
    /\ ret.voices # <<>>

\* C2: while a Set of p is under way, and after it has failed at the delete,
\* at an insert or at the commit, the committed rows of p (all a Get can see)
\* are the rows that were stored when the Set began.
C2_FailedSetInvisible ==
    /\ \A w \in Writers : tx[w].pc = "insert" => RowsOf(rows, tx[w].p) = tx[w].pre
    /\ (ret.call = "Set" /\ ret.err) => ret.seen = ret.pre

\* a Set failed after it had deleted stored rows and inserted a voice
C2_Witness ==
    /\ ret.call = "Set" /\ ret.err /\ ret.at = "insert" /\ ret.n >= 1
    /\ ret.pre # {} /\ RowsOf(rows, ret.p) = ret.pre

\* C3: a Get(p) that runs while a Set(p, V2) replaces V1 returns the whole
\* set that was last committed when its SELECT ran, all of V1 or all of V2
\* (or nothing when that set is expired), never a part or a mix.
C3_GetDuringSet ==
    (ret.call = "Get" /\ ~ret.err /\ ret.during)
        => (Range(ret.voices) = ret.whole /\ NoRepeat(ret.voices))

\* a Get that ran during a Set returned a stored set of two voices
C3_Witness ==
    ret.call = "Get" /\ ~ret.err /\ ret.during /\ Len(ret.voices) = 2

\* the rows of p that Get treats as expired at time t
Expired(table, p, t) == {r \in RowsOf(table, p) : t - r.cached_at > CacheTTL}

\* C12: a Get(p) that finds every stored row of p expired (now - cached_at > ttl)
\* and does not fail returns no voices; no step but a Set or a Clear of p
\* changes the rows stored for p: a Get and the passing of time delete nothing.
C12_ExpiredGetEmpty ==
    [][ /\ (ret'.call = "Get" /\ ~ret'.err /\ Expired(rows, ret'.p, now) = RowsOf(rows, ret'.p))
            => ret'.voices = <<>>
        /\ \A p \in Providers :
              RowsOf(rows', p) # RowsOf(rows, p) => (ret'.call \in {"Set", "Clear"} /\ ret'.p = p)
      ]_vars

\* a Get returned no voices for a provider whose rows, all expired, are still
\* stored
C12_Witness ==
    /\ ret.call = "Get" /\ ~ret.err /\ ret.voices = <<>>
    /\ ret.stored # {} /\ Expired(rows, ret.p, now) = ret.stored
    /\ RowsOf(rows, ret.p) = ret.stored

\* C13: a Get(p) that follows a successful Set(p, V), no other Set or Clear of p
\* between them, while cached_at is newer than now - ttl and that does not
\* fail, returns the voices of V, each once and with the field values it had in V.
C13_SetThenGet ==
    (ret.call = "Get" /\ ~ret.err /\ ret.by = "caller"
        /\ meta[ret.p].nsets >= 1 /\ meta[ret.p].stamp > now - CacheTTL)
        => (Range(ret.voices) = Range(meta[ret.p].last) /\ NoRepeat(ret.voices))

\* a Get returned the two voices, one of them with a description, that the
\* Set before it had stored
C13_Witness ==
    /\ ret.call = "Get" /\ ~ret.err /\ ret.by = "caller" /\ Len(ret.voices) = 2
    /\ Range(ret.voices) = Range(meta[ret.p].last)
    /\ \E k \in DOMAIN ret.voices : ret.voices[k].Description # ""

\* C18: ExportToJSON(p, path) for a provider with no stored voices returns an
\* error, the "no cached voices" error unless the read of the cache itself
\* failed, and leaves every file as it was: none is created, none is changed.
C18_ExportNothingCached ==
    (ret.call = "ExportToJSON" /\ ret.stored = {})
        => /\ ret.err
           /\ ret.cause \in {"no cached voices", "get"}
           /\ files = ret.before

\* an export for a provider without voices failed and left the file of an
\* earlier export untouched
C18_Witness ==
    /\ ret.call = "ExportToJSON" /\ ret.stored = {} /\ ret.cause = "no cached voices"
    /\ files[ret.path] # NoFile

\* C19 as claimed: ExportToJSON(p, path), when neither the read of the cache
\* nor the write of the file fails, serializes the voices stored for p
\* whatever their age, and so fails only when no voice is stored for p.
C19_ExportIgnoresAge ==
    (ret.call = "ExportToJSON" /\ ret.stored # {} /\ ret.cause \notin {"get", "write"})
        => /\ ~ret.err
           /\ Range(ret.voices) = VoicesIn(ret.stored)
           /\ files[ret.path] = WriteFile(MarshalIndent(ret.voices))

(***************************************************************************)
(* Claims about the CachedProvider.                                        *)
(***************************************************************************)
\* C8: when Get hands ListVoices a non-empty (so unexpired) cached list,
\* ListVoices returns that list without error and has not called the wrapped
\* provider's ListVoices.
C8_CacheHitNoBackendCall ==
    (ret.call = "ListVoices" /\ ret.got # <<>>)
        => (~ret.err /\ ret.voices = ret.got /\ ret.backend = 0)

\* ListVoices was served from a cache that an earlier miss had filled
C8_Witness ==
    /\ ret.call = "ListVoices" /\ ret.got # <<>> /\ ~ret.err
    /\ Range(ret.got) = VoicesIn(RowsOf(rows, CpName))

\* C9 as claimed: ListVoices never returns an error because the cache read
\* failed (only ListVoicesRefresh would report a failed read).
C9_ReadFailureNotReturned ==
    ret.call = "ListVoices" => ~(ret.err /\ ret.cause = "cache read")

\* C10: when ListVoices misses, the wrapped provider answers and the Set that
\* follows fails, ListVoices returns the fetched voices and no error.
C10_WriteFailureNotReturned ==
    (ret.call = "ListVoices" /\ ret.setErr)
        => (~ret.err /\ ret.backend = 1 /\ ret.voices = ret.fetched)

\* a Set of fetched voices failed and ListVoices returned these voices
C10_Witness ==
    /\ ret.call = "ListVoices" /\ ret.setErr /\ ~ret.err /\ Len(ret.voices) = 2
    /\ Range(ret.voices) # VoicesIn(RowsOf(rows, CpName))

\* C11: ListVoicesRefresh never reads the cache; it returns an error exactly
\* when the Clear, the wrapped provider's ListVoices or the Set has failed, and
\* then no voices; when it returns without error the Clear has run, the wrapped
\* provider was called once, the Set succeeded, the voices returned are the
\* fetched ones and they are what is now stored for the provider.
C11_RefreshAllOrError ==
    ret.call = "ListVoicesRefresh" =>
        /\ ret.got = <<>>
        /\ ret.err <=> ret.cause \in {"cache clear", "provider", "cache write"}
        /\ ret.err => ret.voices = <<>>
        /\ ret.cause = "cache clear" <=> ~ret.cleared
        /\ ret.cause = "cache write" <=> ret.setErr
        /\ ~ret.err =>
              /\ ret.cleared /\ ret.backend = 1 /\ ~ret.setErr
              /\ ret.voices = ret.fetched
              /\ RowsOf(rows, CpName) = {Row(CpName, v, now) : v \in Range(ret.fetched)}

\* a refresh found unexpired voices stored, cleared them and returned other,
\* freshly fetched voices
C11_Witness ==
    /\ ret.call = "ListVoicesRefresh" /\ ~ret.err
    /\ ret.held # {} /\ Range(ret.voices) # ret.held /\ ret.voices # <<>>

(***************************************************************************)
(* Claims about the duration fitters.                                      *)
(***************************************************************************)
\* the speeds of the two speed-controlled backends
SpeedRange(fn) ==
    IF fn = "calculateSpeed" THEN [min |-> <<7, 10>>, max |-> <<12, 10>>]
    ELSE [min |-> <<25, 100>>, max |-> <<4, 1>>]

\* C14: for every text and every target duration above 0 the rate fitter
\* returns a rate from 90 to 360 WPM, the ElevenLabs speed fitter a speed from
\* 0.7 to 1.2 and the Google speed fitter a speed from 0.25 to 4.0.
C14_OutputWithinRange ==
    (fit.pc = "done" /\ fit.target > 0) =>
        CASE fit.fn = "estimateSpeakingRate" -> fit.out \in 90..360
          [] fit.fn = "calculateSpeed" ->
                ~FloatLess(fit.out, <<7, 10>>) /\ ~FloatLess(<<12, 10>>, fit.out)
          [] fit.fn = "google calculateSpeed" ->
                ~FloatLess(fit.out, <<25, 100>>) /\ ~FloatLess(<<4, 1>>, fit.out)

\* the ElevenLabs speed fitter has brought a speed above 1.2 down to 1.2
C14_Witness ==
    /\ fit.pc = "done" /\ fit.target > 0 /\ fit.fn = "calculateSpeed"
    /\ FloatLess(<<12, 10>>, fit.unclamped) /\ FloatEqual(fit.out, <<12, 10>>)

C16_RateClampWarns ==
    (fit.pc = "done" /\ fit.fn = "estimateSpeakingRate" /\ fit.unclamped \notin 90..360) =>
        /\ Len(fit.warnings) = 1
        /\ Truncate(fit.warnings[1].names) \notin 90..360

\* C17 as claimed: a speed fitter that clamps to the maximum speed (the
\* target is too short) warns that the audio will be longer than the target,
\* and one that clamps to the minimum speed (the target is too long) warns
\* that the audio will be shorter than the target.
C17_SpeedClampWarning ==
    (fit.pc = "done" /\ fit.fn # "estimateSpeakingRate" /\ fit.target > 0
        /\ ~FloatEqual(fit.out, fit.unclamped)) =>
        /\ Len(fit.warnings) = 1
        /\ FloatLess(SpeedRange(fit.fn).max, fit.unclamped) =>
              /\ FloatEqual(fit.out, SpeedRange(fit.fn).max)
              /\ fit.warnings[1].audio = "longer than target"
        /\ FloatLess(fit.unclamped, SpeedRange(fit.fn).min) =>
              /\ FloatEqual(fit.out, SpeedRange(fit.fn).min)
              /\ fit.warnings[1].audio = "shorter than target"

(***************************************************************************)
(* Claims about the retry executor.                                        *)
(***************************************************************************)
AllAre(s, x) == s # <<>> /\ \A k \in DOMAIN s : s[k] = x

\* C4: whatever the attempts yield, the executor never makes more than 3 attempts
\* for a request; and when every attempt yields 503 (the caller's context
\* staying live, so that each wait runs out into the next attempt) it
\* returns after exactly 3 attempts with the error of the third attempt,
\* whose status is 503.
C4_AtMostThreeAttempts ==
    /\ Len(rq.outcomes) <= 3
    /\ (rq.pc = "done" /\ ~rq.cancelled /\ AllAre(rq.outcomes, 503))
         => (Len(rq.outcomes) = 3 /\ rq.result = <<"err", 3>> /\ rq.lastErr = <<503, 3>>)

\* three attempts have all yielded 503 and the executor has returned
C4_Witness ==
    /\ rq.pc = "done" /\ ~rq.cancelled
    /\ rq.outcomes = <<503, 503, 503>> /\ rq.result[1] = "err"

\* C5: a request whose attempt yields 401 is attempted once: the response is
\* handed back at once, there is no wait and no second attempt.
C5_NoRetryOn401 ==
    (rq.outcomes # <<>> /\ rq.outcomes[1] = 401)
        => (rq.pc = "done" /\ Len(rq.outcomes) = 1 /\ rq.waits = 0 /\ rq.result = <<"resp", 401>>)

\* the executor has returned the 401 response of its first attempt
C5_Witness ==
    rq.pc = "done" /\ rq.outcomes = <<401>> /\ rq.result = <<"resp", 401>>

\* C6 as claimed: every attempt sends the whole request body, as the first
\* attempt did.
C6_EveryAttemptSendsBody ==
    \A k \in DOMAIN rq.sent : rq.sent[k] = rq.body

\* C7: once the context is cancelled during the wait between two attempts,
\* the executor makes no further attempt and returns the context's error.
C7_CancelEndsWait ==
    rq.cancelledAt > 0
        => /\ Len(rq.outcomes) = rq.cancelledAt
           /\ rq.pc \in {"wait", "done"}
           /\ rq.pc = "done" => rq.result = <<"ctx", rq.cancelledAt>>

\* the executor has returned the context's error from its wait
C7_Witness ==
    rq.cancelledAt > 0 /\ rq.pc = "done" /\ rq.result[1] = "ctx" /\ rq.waits = 2

\* a status that is neither 2xx nor one of 429, 500, 502, 503
Terminal(o) == o # NetErr /\ o \notin 200..299 /\ o \notin {429, 500, 502, 503}

\* C20: an attempt that yields a status which is neither 2xx nor one of 429,
\* 500, 502, 503 is the last attempt of its call: the executor hands the
\* response back with no wait and no further attempt, and Generate or
\* ListVoices returns an error that holds this status and the bytes read from
\* the response body, which are the whole body when reading it did not fail.
C20_TerminalStatusFailsAtOnce ==
    /\ \A k \in DOMAIN rq.outcomes :
          Terminal(rq.outcomes[k]) =>
              /\ k = Len(rq.outcomes)
              /\ rq.pc = "done" /\ rq.result = <<"resp", rq.outcomes[k]>>
              /\ rq.waits = k - 1
    /\ (ret.call \in Apis /\ Terminal(ret.last)) =>
          /\ ret.err /\ ret.cause = "API request failed"
          /\ ret.waits = ret.attempts - 1
          /\ ret.error.status = ret.last
          /\ ret.error.body = ret.read.data
          /\ ~ret.read.failed => ret.error.body = ret.respBody

\* Generate has returned the error of a 404 whose body it has read in full
C20_Witness ==
    /\ ret.call = "elevenlabs.Generate" /\ ret.err
    /\ ret.last = 404 /\ ret.attempts = 1
    /\ ret.respBody # <<>> /\ ret.error.body = ret.respBody

(***************************************************************************)
(* Claims about the providers' Generate.                                   *)
(***************************************************************************)
\* C21 as claimed: Generate of every backend returns an error when the text
\* of the request is empty after normalization, and hands no text to the
\* synthesizer.
C21_EmptyTextFails ==
    (ret.call = "Generate" /\ CleanMarkdown(ret.text) = <<>>) => (ret.err /\ ~ret.given)

(***************************************************************************)
(* Claims about the processor.                                             *)
(***************************************************************************)
\* the files of s, in the order of s
FilesOf(s) == [k \in DOMAIN s |-> s[k].file]

\* 1, 2, ..., n
UpTo(n) == [k \in 1..n |-> k]

\* C22: in directory mode the files are processed one after the other in the
\* order they were found; a file that fails is logged with a warning and
\* skipped, every file after it is still processed, and ProcessDirectory
\* returns no error once it has found at least one file.
C22_FileFailureIsolated ==
    /\ run.pc \in {"file", "section"} =>
          /\ FilesOf(run.visited) = UpTo(run.i - 1)
          /\ run.i <= Len(run.dir) + 1
    /\ (ret.call = "ProcessDirectory" /\ Len(ret.dir) > 0) =>
          /\ ~ret.err
          /\ FilesOf(ret.visited) = UpTo(Len(ret.dir))
          /\ ret.warnings = Cardinality({k \in DOMAIN ret.visited : ret.visited[k].err})

\* the first of two files has failed, the second has had its sections
\* generated, and ProcessDirectory has returned
C22_Witness ==
    /\ ret.call = "ProcessDirectory" /\ Len(ret.dir) = 2 /\ ~ret.err
    /\ ret.visited[1].err /\ ret.visited[2].looped
    /\ \E k \in DOMAIN ret.calls : ret.calls[k].file = 2

\* the Generate invocations made for file f, in the order they were made
CallsFor(calls, f) ==
    LET OfFile(c) == c.file = f
    IN SelectSeq(calls, OfFile)

\* C23 as claimed: in a file run that has gone through its loop the
\* Generate invocations are the H2 sections of the document in their order:
\* the i-th invocation is for the i-th H2 section and has index i.
C23_InvocationsFollowDocument ==
    ret.call = "ProcessDirectory" =>
        \A f \in DOMAIN ret.visited :
            ret.visited[f].looped =>
                LET made == CallsFor(ret.calls, f)
                IN /\ Len(made) = Len(ret.dir[f])
                   /\ \A k \in DOMAIN made : made[k].section.Title = k /\ made[k].index = k

\* C23, amended: in a file run that has gone through its loop the Generate
\* invocations are the sections the parser has kept, which are the H2
\* sections of the document that have text left after cleaning, in their
\* order: the i-th invocation is for the i-th of these and has index i,
\* whichever of the earlier invocations failed; while the loop runs the
\* invocations made so far are the first of these.
C23_InvocationsFollowSections ==
    /\ ret.call = "ProcessDirectory" =>
          \A f \in DOMAIN ret.visited :
              ret.visited[f].looped =>
                  LET made == CallsFor(ret.calls, f)
                      kept == ParseMarkdownFile(ret.dir[f])
                  IN /\ Len(made) = Len(kept)
                     /\ \A k \in DOMAIN made : made[k].section = kept[k] /\ made[k].index = k
    /\ run.pc = "section" =>
          LET made == CallsFor(run.calls, run.i)
              kept == ParseMarkdownFile(run.dir[run.i])
          IN /\ Len(made) = run.j - 1 /\ Len(made) <= Len(kept)
             /\ \A k \in DOMAIN made : made[k].section = kept[k] /\ made[k].index = k

\* a file with two sections: the first invocation has failed, the second
\* has been made for the second section with index 2
C23_Witness ==
    /\ ret.call = "ProcessDirectory"
    /\ \E f \in DOMAIN ret.visited :
          /\ ret.visited[f].looped
          /\ Len(CallsFor(ret.calls, f)) = 2
          /\ ~CallsFor(ret.calls, f)[1].ok
          /\ CallsFor(ret.calls, f)[2].index = 2

(***************************************************************************)
(* Claims about concurrent Sets and Clears.                                *)
(***************************************************************************)
\* the rows of the voices of V, all stamped t
RowsFor(p, V, t) == {Row(p, V[k], t) : k \in DOMAIN V}

\* C24: when Sets of one provider run concurrently and complete, the cache
\* holds for this provider exactly the voices of the Set that committed
\* last: right after a commit the rows of the provider are the rows of the
\* committing Set, and from then on until the next commit or Clear.
C24_LastCommitWins ==
    /\ (ret.call = "Set" /\ ~ret.err) =>
          RowsOf(rows, ret.p) = RowsFor(ret.p, ret.V, ret.stamp)
    /\ \A p \in Providers :
          meta[p].nsets > 0 => RowsOf(rows, p) = RowsFor(p, meta[p].last, meta[p].stamp)

\* a Set has committed that had begun before another Set of its provider
\* committed, and a voice of that other Set is gone
C24_Witness ==
    /\ ret.call = "Set" /\ ~ret.err /\ ret.p \in ret.met
    /\ ret.V # <<>> /\ VoicesIn(ret.pre) \ Range(ret.V) # {}
    /\ RowsOf(rows, ret.p) = RowsFor(ret.p, ret.V, ret.stamp)

\* C25: at every moment the rows stored for one provider all have the same
\* cached_at, and so have the rows of a provider in the view of a Set that
\* is inserting.
C25_OneStampPerProvider ==
    /\ \A r1, r2 \in rows : r1.provider = r2.provider => r1.cached_at = r2.cached_at
    /\ \A w \in Writers :
          tx[w].pc = "insert" =>
              \A r1, r2 \in tx[w].work : r1.provider = r2.provider => r1.cached_at = r2.cached_at

\* a Set has replaced rows of an earlier time by two rows of its own time
C25_Witness ==
    /\ ret.call = "Set" /\ ~ret.err /\ Len(ret.V) = 2
    /\ ret.pre # {} /\ \A r \in ret.pre : r.cached_at < ret.stamp
    /\ Cardinality(RowsOf(rows, ret.p)) = 2
    /\ \A r \in RowsOf(rows, ret.p) : r.cached_at = ret.stamp

\* C27: no step of a Set or Clear of p, run alone or concurrently with
\* others, changes what Get(q) or GetCacheInfo(q) returns for another
\* provider q: the results of q change (the clock standing still) only in
\* the step in which a Set or a Clear of q succeeds.
C27_OtherProvidersUntouched ==
    [][ \A q \in Providers :
           (now' = now /\ ~(ret'.call \in {"Set", "Clear"} /\ ret'.p = q /\ ~ret'.err))
               => /\ GetResults(rows', q, now') = GetResults(rows, q, now)
                  /\ CacheInfoOf(rows', q) = CacheInfoOf(rows, q)
      ]_vars

\* a Set of p1 has committed that ran while a Set of p2 committed, and the
\* voices of p2 are stored
C27_Witness ==
    /\ ret.call = "Set" /\ ~ret.err /\ ret.p = "p1" /\ "p2" \in ret.met
    /\ ret.V # <<>> /\ RowsOf(rows, "p2") # {}

(***************************************************************************)
(* Claims about CacheInfo.                                                 *)
(***************************************************************************)
\* C26: IsExpired(ttl) answers true if and only if the info counts no voice
\* or the time from its NewestEntry to now is greater than ttl.
C26_IsExpiredIff ==
    ret.call = "IsExpired" =>
        (ret.expired <=> (ret.info.Count = 0 \/ ret.at - ret.info.NewestEntry > ret.ttl))

\* an info with voices whose newest entry is exactly ttl old is not expired
C26_Witness ==
    /\ ret.call = "IsExpired" /\ ret.info.Count > 0 /\ ret.ttl > 0
    /\ ret.at - ret.info.NewestEntry = ret.ttl
    /\ ~ret.expired

(***************************************************************************)
(* Claims about a CachedProvider that is alone on its cache.               *)
(***************************************************************************)
\* C28: after a ListVoicesRefresh in which the wrapped provider's
\* ListVoices failed, no row of the provider is stored, and the ListVoices
\* that comes next, when it can read the cache, gets nothing from it and
\* calls the wrapped provider once: what it returns is what the provider
\* answered, not what the cache held before the refresh.
C28_FailedRefreshLeavesCacheEmpty ==
    /\ (cp.pc = "idle" /\ cp.failed) =>
          /\ RowsOf(rows, CpName) = {}
          /\ GetResults(rows, CpName, now) = {<<>>}
    /\ (ret.call = "ListVoicesRefresh" /\ ret.err /\ ret.cause = "provider") =>
          RowsOf(rows, CpName) = {}
    /\ (ret.call = "ListVoices" /\ ret.after /\ ret.cause # "cache read") =>
          /\ ret.got = <<>>
          /\ ret.backend = 1
          /\ ret.voices = (IF ret.err THEN <<>> ELSE ret.fetched)

\* a ListVoices has returned fetched voices after a failed refresh that had
\* cleared unexpired voices
C28_Witness ==
    /\ ret.call = "ListVoices" /\ ret.after /\ ret.lost # {}
    /\ ~ret.err /\ ret.got = <<>> /\ ret.backend = 1
    /\ ret.voices # <<>> /\ Range(ret.voices) # ret.lost

(***************************************************************************)
(* Claims about the end of the retry loop.                                 *)
(***************************************************************************)
\* the statuses the loop tries again
RetriedStatuses == {429, 500, 502, 503}

\* C29: an attempt that brings a response whose status is none of 429, 500,
\* 502 and 503 is the last attempt of its request: the request is over, its
\* result is that response, and it has waited only between the attempts
\* before, whatever the earlier attempts brought.
C29_NonRetryableEndsRequest ==
    \A k \in DOMAIN rq.outcomes :
        (rq.outcomes[k] # NetErr /\ rq.outcomes[k] \notin RetriedStatuses) =>
            /\ k = Len(rq.outcomes)
            /\ rq.pc = "done"
            /\ rq.result = <<"resp", rq.outcomes[k]>>
            /\ rq.waits = k - 1

\* a request is over with a 404 response after a 503 and a network error
C29_Witness ==
    /\ rq.pc = "done"
    /\ rq.outcomes = <<503, NetErr, 404>>
    /\ rq.result = <<"resp", 404>>
    /\ rq.waits = 2

(***************************************************************************)
(* Claims about the voice-listing command.                                 *)
(***************************************************************************)
\* C30: the voice-listing command without refresh shows the hint "using
\* cached voices" only when its voices came from the cache: when the cache
\* info it got counts a voice, the ListVoices it then calls has got the
\* voices from the cache and has not called the wrapped provider.
C30_HintOnlyOnCacheHit ==
    /\ (ret.call = "cli.ListVoices" /\ ret.hint) =>
          (ret.got # <<>> /\ ret.voices = ret.got /\ ret.backend = 0)
    /\ (ret.call = "cli.ListVoices" /\ ~ret.refreshCache /\ ~ret.infoErr
            /\ ret.count > 0 /\ ~ret.err) =>
          (ret.got # <<>> /\ ret.backend = 0)
====
